---- MODULE Spec2Model ----
(***************************************************************************)
(* Model of the Statement-of-Facts backend: the dual-pass extraction and   *)
(* adjudication pipeline of processor.py (get_structured_data and its two  *)
(* helpers) driven by the /process handler of main.py, together with the   *)
(* background task that wipes output.json.                                 *)
(*                                                                         *)
(* Encoding conventions                                                    *)
(*   - Optional[T] is a sequence of length <= 1: None is <<>>, a present   *)
(*     value x is <<x>>.                                                   *)
(*   - a JSON value is a record tagged with its JSON type (field t): null, *)
(*     boolean, number, string, array, object.                             *)
(*   - numbers are integers in tenths: 0.9 is 9, 1.5 is 15, 1 is 10;       *)
(*     temperatures likewise (0.0 is 0, 0.3 is 3).  A string carries, with *)
(*     its characters, the number a float field reads from it (num) and    *)
(*     the number an int field reads from it (int), when there is one:     *)
(*     "1" has both, "1e1" and "1.5" have the first only.                  *)
(*   - a Python exception is the name of its class.                        *)
(***************************************************************************)
EXTENDS Integers, Sequences, FiniteSets, TLC

VARIABLES
    env,                \* os.environ["GOOGLE_API_KEY"] (Optional string)
    pc,                 \* position of the /process handler
    requests,           \* number of /process requests received so far
    files,              \* file names of the request being handled
    idx,                \* index of the file the for-loop is at
    uploads,            \* names of the files that exist under uploads/
    raw_text,           \* Optional: text returned by extract_text_from_document
    all_detailed_data,  \* the handler's result list
    extraction1,        \* Optional: first candidate
    extraction2,        \* Optional: second candidate
    trace,              \* sub-calls made by the running get_structured_data
    result,             \* how get_structured_data ended (Pending while running)
    caught,             \* Optional: the exception on its way to the except clause
    response,           \* HTTP response of the last finished request
    output_json,        \* output.json: [exists, data]
    offset,             \* position of the handler's descriptor in output.json
    flushes,            \* buffer flushes of the running json.dump
    tasks,              \* background clear tasks scheduled and not started
    clearing            \* clear tasks that opened output.json and did not write yet

vars == <<env, pc, requests, files, idx, uploads, raw_text, all_detailed_data,
          extraction1, extraction2, trace, result, caught, response,
          output_json, offset, flushes, tasks, clearing>>

\* Number of /process requests of a run.
MaxRequests == 2

\* Number of times the buffer of json.dump is flushed before the file is closed.
MaxFlushes == 1

None == <<>>
Some(x) == <<x>>

----------------------------------------------------------------------------
\* JSON values.

JNull == [t |-> "null"]
JBool(b) == [t |-> "boolean", b |-> b]
JNum(n) == [t |-> "number", n |-> n]
JStr(s) == [t |-> "string", s |-> s, num |-> None, int |-> None]
JNumeral(s, n, i) == [t |-> "string", s |-> s, num |-> Some(n), int |-> i]
JArr(a) == [t |-> "array", a |-> a]
JObj(o) == [t |-> "object", o |-> o]

----------------------------------------------------------------------------
\* Data models (processor.py, lines 11-69): the declared type of each field.
\* Every field is declared Optional[...] without a default (nullable, not
\* omittable), except the three required fields of SoFSchema.

PartyDetailsTypes ==
    [shipowner_name |-> "str", charterer_name |-> "str", port_agent_name |-> "str",
     confidence |-> "float"]
CargoDetailsTypes ==
    [operation_type |-> "str", cargo_type |-> "str", quantity |-> "float",
     unit |-> "str", confidence |-> "float"]
SignatoryTypes ==
    [role |-> "str", name |-> "str", date_signed |-> "str", confidence |-> "float"]
DocumentDetailsTypes ==
    [document_source |-> "str", date_of_document |-> "str", port_name |-> "str",
     vessel_name |-> "str", voyage_number |-> "str", parties |-> "PartyDetails",
     cargo |-> "CargoDetails", confidence |-> "float"]
EventTypes ==
    [event_id |-> "int", event_type |-> "str", start_date |-> "str",
     start_time |-> "str", end_date |-> "str", end_time |-> "str",
     duration_hours |-> "float", weather_conditions |-> "str", remarks |-> "str",
     confidence |-> "float"]
LaytimeNotesTypes ==
    [free_time_periods_identified |-> "str", suspension_periods_identified |-> "str",
     remarks_on_interruptions_or_delays |-> "str", confidence |-> "float"]
SoFSchemaFields == {"document_details", "events", "laytime_notes", "approvals"}

ScalarTypes == {"str", "float", "int"}

\* Validation of a value against Optional[str], Optional[float] or
\* Optional[int] (pydantic's default, lax mode): null passes; a string field
\* takes strings only; a float field takes numbers, booleans and strings that
\* parse as a float; an int field takes booleans, whole numbers and strings
\* that parse as an int.  No field carries a range constraint.
ValidScalar(x, ty) ==
    CASE ty = "str" -> x.t \in {"null", "string"}
      [] ty = "float" ->
            \/ x.t \in {"null", "number", "boolean"}
            \/ (x.t = "string" /\ x.num # None)
      [] ty = "int" ->
            \/ x.t \in {"null", "boolean"}
            \/ (x.t = "number" /\ x.n % 10 = 0)
            \/ (x.t = "string" /\ x.int # None)

\* The value a validated scalar field holds.
CoerceScalar(x, ty) ==
    IF ty = "str" THEN x
    ELSE IF x.t = "boolean" THEN JNum(IF x.b THEN 10 ELSE 0)
    ELSE IF x.t = "string" THEN JNum(IF ty = "int" THEN x.int[1] ELSE x.num[1])
    ELSE x

\* Validation of a JSON value against a class: it is an object, every declared
\* field is present and every scalar field has a value of its type.
ValidObject(v, types) ==
    /\ v.t = "object"
    /\ DOMAIN types \subseteq DOMAIN v.o
    /\ \A f \in DOMAIN types :
          types[f] \in ScalarTypes => ValidScalar(v.o[f], types[f])

ValidDocumentDetails(v) ==
    /\ ValidObject(v, DocumentDetailsTypes)
    /\ v.o.parties.t = "null" \/ ValidObject(v.o.parties, PartyDetailsTypes)
    /\ v.o.cargo.t = "null" \/ ValidObject(v.o.cargo, CargoDetailsTypes)

SoFSchemaValidates(v) ==
    /\ v.t = "object"
    /\ SoFSchemaFields \subseteq DOMAIN v.o
    /\ ValidDocumentDetails(v.o.document_details)
    /\ v.o.events.t = "array"
    /\ \A i \in DOMAIN v.o.events.a : ValidObject(v.o.events.a[i], EventTypes)
    /\ ValidObject(v.o.laytime_notes, LaytimeNotesTypes)
    /\ \/ v.o.approvals.t = "null"
       \/ /\ v.o.approvals.t = "array"
          /\ \A i \in DOMAIN v.o.approvals.a :
                ValidObject(v.o.approvals.a[i], SignatoryTypes)

\* The instance of a class built from a valid object: its declared scalar
\* fields, coerced; other keys are dropped.
Instance(v, types) ==
    [f \in {g \in DOMAIN types : types[g] \in ScalarTypes} |->
        CoerceScalar(v.o[f], types[f])]

\* SoFSchema.model_validate_json on a valid value: the SoFSchema instance.
\* Nested instances are Optional where the field is.
model_validate(v) ==
    [document_details |->
        [scalars |-> Instance(v.o.document_details, DocumentDetailsTypes),
         parties |-> IF v.o.document_details.o.parties.t = "null" THEN None
                     ELSE Some(Instance(v.o.document_details.o.parties, PartyDetailsTypes)),
         cargo |-> IF v.o.document_details.o.cargo.t = "null" THEN None
                   ELSE Some(Instance(v.o.document_details.o.cargo, CargoDetailsTypes))],
     events |-> [i \in DOMAIN v.o.events.a |-> Instance(v.o.events.a[i], EventTypes)],
     laytime_notes |-> Instance(v.o.laytime_notes, LaytimeNotesTypes),
     approvals |-> IF v.o.approvals.t = "null" THEN None
                   ELSE Some([i \in DOMAIN v.o.approvals.a |->
                                 Instance(v.o.approvals.a[i], SignatoryTypes)])]

\* BaseModel.model_dump(): the instance as a dict, nested instances as dicts.
model_dump(m) ==
    JObj([document_details |->
            JObj([f \in DOMAIN DocumentDetailsTypes |->
                    CASE f = "parties" ->
                           IF m.document_details.parties = None THEN JNull
                           ELSE JObj(m.document_details.parties[1])
                      [] f = "cargo" ->
                           IF m.document_details.cargo = None THEN JNull
                           ELSE JObj(m.document_details.cargo[1])
                      [] OTHER -> m.document_details.scalars[f]]),
          events |-> JArr([i \in DOMAIN m.events |-> JObj(m.events[i])]),
          laytime_notes |-> JObj(m.laytime_notes),
          approvals |->
            IF m.approvals = None THEN JNull
            ELSE JArr([i \in DOMAIN m.approvals[1] |-> JObj(m.approvals[1][i])])])

----------------------------------------------------------------------------
\* The LLM service's answers used as inputs: raw response texts and the JSON
\* values they denote.

PartyDetails(c) ==
    JObj([shipowner_name |-> JNull, charterer_name |-> JNull, port_agent_name |-> JNull,
          confidence |-> c])
CargoDetails(c) ==
    JObj([operation_type |-> JStr("loading"), cargo_type |-> JNull, quantity |-> JNull,
          unit |-> JNull, confidence |-> c])
Signatory(c) ==
    JObj([role |-> JStr("Master"), name |-> JNull, date_signed |-> JNull,
          confidence |-> c])
Event(c) ==
    JObj([event_id |-> JNum(10), event_type |-> JStr("loading"), start_date |-> JNull,
          start_time |-> JStr("08:00"), end_date |-> JNull, end_time |-> JStr("14:00"),
          duration_hours |-> JNum(60), weather_conditions |-> JNull, remarks |-> JNull,
          confidence |-> c])
LaytimeNotes(c) ==
    JObj([free_time_periods_identified |-> JNull, suspension_periods_identified |-> JNull,
          remarks_on_interruptions_or_delays |-> JNull, confidence |-> c])
SoFRecord(vessel, c, ce) ==
    JObj([document_details |->
            JObj([document_source |-> JNull, date_of_document |-> JNull,
                  port_name |-> JNull, vessel_name |-> JStr(vessel),
                  voyage_number |-> JNull, parties |-> PartyDetails(c),
                  cargo |-> CargoDetails(c), confidence |-> c]),
          events |-> JArr(<<Event(ce)>>),
          laytime_notes |-> LaytimeNotes(c),
          approvals |-> JArr(<<Signatory(c)>>)])

\* A conforming record, every confidence 0.9.
TextA == "{\"document_details\":{\"document_source\":null,\"date_of_document\":null,\"port_name\":null,\"vessel_name\":\"MV A\",\"voyage_number\":null,\"parties\":{\"shipowner_name\":null,\"charterer_name\":null,\"port_agent_name\":null,\"confidence\":0.9},\"cargo\":{\"operation_type\":\"loading\",\"cargo_type\":null,\"quantity\":null,\"unit\":null,\"confidence\":0.9},\"confidence\":0.9},\"events\":[{\"event_id\":1,\"event_type\":\"loading\",\"start_date\":null,\"start_time\":\"08:00\",\"end_date\":null,\"end_time\":\"14:00\",\"duration_hours\":6.0,\"weather_conditions\":null,\"remarks\":null,\"confidence\":0.9}],\"laytime_notes\":{\"free_time_periods_identified\":null,\"suspension_periods_identified\":null,\"remarks_on_interruptions_or_delays\":null,\"confidence\":0.9},\"approvals\":[{\"role\":\"Master\",\"name\":null,\"date_signed\":null,\"confidence\":0.9}]}"
\* A conforming record whose event carries confidence 1.5.
TextB == "{\"document_details\":{\"document_source\":null,\"date_of_document\":null,\"port_name\":null,\"vessel_name\":\"MV B\",\"voyage_number\":null,\"parties\":{\"shipowner_name\":null,\"charterer_name\":null,\"port_agent_name\":null,\"confidence\":null},\"cargo\":{\"operation_type\":\"loading\",\"cargo_type\":null,\"quantity\":null,\"unit\":null,\"confidence\":null},\"confidence\":null},\"events\":[{\"event_id\":1,\"event_type\":\"loading\",\"start_date\":null,\"start_time\":\"08:00\",\"end_date\":null,\"end_time\":\"14:00\",\"duration_hours\":6.0,\"weather_conditions\":null,\"remarks\":null,\"confidence\":1.5}],\"laytime_notes\":{\"free_time_periods_identified\":null,\"suspension_periods_identified\":null,\"remarks_on_interruptions_or_delays\":null,\"confidence\":null},\"approvals\":[{\"role\":\"Master\",\"name\":null,\"date_signed\":null,\"confidence\":null}]}"
\* A JSON object that lacks document_details, laytime_notes and approvals.
TextPartial == "{\"events\":[]}"
\* A JSON array.
TextArray == "[]"
\* Text that is not JSON.
TextGarbage == "I could not read this document."

JsonTexts == {TextA, TextB, TextPartial, TextArray}

\* json.loads on the texts above: the value each JSON text denotes.
JsonValue(text) ==
    CASE text = TextA -> SoFRecord("MV A", JNum(9), JNum(9))
      [] text = TextB -> SoFRecord("MV B", JNull, JNum(15))
      [] text = TextPartial -> JObj([events |-> JArr(<<>>)])
      [] text = TextArray -> JArr(<<>>)

----------------------------------------------------------------------------
\* How a call ends: it returns a value or raises an exception.

Return(v) == [kind |-> "return", value |-> Some(v), exc |-> ""]
Raise(e) == [kind |-> "raise", value |-> None, exc |-> e]
Pending == [kind |-> "pending", value |-> None, exc |-> ""]

\* The LLM service's behaviours on one generate_content call.  error: the call
\* itself raises.  parsed: what reading response.parsed gives, the SoFSchema
\* instance validated from the text, None, or a pydantic ValidationError.
\* text: response.text.
Responses ==
    {[error |-> TRUE, parsed |-> "None", text |-> None]}
    \cup {[error |-> FALSE, parsed |-> "instance", text |-> Some(t)] : t \in {TextA, TextB}}
    \cup {[error |-> FALSE, parsed |-> "None", text |-> t] :
            t \in {None, Some(TextGarbage)}}
    \cup {[error |-> FALSE, parsed |-> "ValidationError", text |-> t] :
            t \in {None, Some(TextGarbage), Some(TextPartial), Some(TextArray)}}

\* The values GOOGLE_API_KEY takes: unset, empty, set.
ApiKeys == {None, Some(""), Some("key")}

\* json.loads(response.text)
json_loads(text) ==
    IF text = None THEN Raise("TypeError")
    ELSE IF text[1] \in JsonTexts THEN Return(JsonValue(text[1]))
    ELSE Raise("JSONDecodeError")

\* try: parsed = response.parsed; return parsed.model_dump()
\* except ValidationError: return json.loads(response.text)
ParseResponse(resp) ==
    CASE resp.parsed = "ValidationError" -> json_loads(resp.text)
      [] resp.parsed = "None" -> Raise("AttributeError")
      [] OTHER -> Return(model_dump(model_validate(JsonValue(resp.text[1]))))

\* client.models.generate_content(...) followed by the parsing of its response
generate_content(resp) ==
    IF resp.error THEN Raise("APIError") ELSE ParseResponse(resp)

\* A credential check that tests for an unset variable only (`api_key is None`).
ApiKeyIsNone(api_key) == api_key = None

\* `not api_key`: true of an unset and of an empty credential
NotApiKey(api_key) == api_key = None \/ api_key = Some("")

\* Sampling temperatures of the two extraction passes and of the refinement.
FirstTemperature == 0
SecondTemperature == 3
RefineTemperature == 0

\* _run_extraction(sof_text, temperature) under credential api_key, the
\* service answering llm.  The value is the record of the call: the credential
\* it read, the request it sent (None when no request was sent) and how it ended.
_run_extraction(sof_text, temperature, api_key, llm) ==
    IF NotApiKey(api_key)
    THEN [fn |-> "_run_extraction", api_key |-> api_key, request |-> None,
          llm |-> None, outcome |-> Raise("ValueError")]
    ELSE [fn |-> "_run_extraction", api_key |-> api_key,
          request |-> Some([model |-> "gemini-2.5-pro", temperature |-> temperature,
                            sof_text |-> sof_text, extracted_jsons |-> <<>>]),
          llm |-> Some(llm), outcome |-> generate_content(llm)]

\* _refine_extraction(sof_text, extracted_jsons)
_refine_extraction(sof_text, extracted_jsons, api_key, llm) ==
    IF NotApiKey(api_key)
    THEN [fn |-> "_refine_extraction", api_key |-> api_key, request |-> None,
          llm |-> None, outcome |-> Raise("ValueError")]
    ELSE [fn |-> "_refine_extraction", api_key |-> api_key,
          request |-> Some([model |-> "gemini-2.5-pro", temperature |-> RefineTemperature,
                            sof_text |-> sof_text, extracted_jsons |-> extracted_jsons]),
          llm |-> Some(llm), outcome |-> generate_content(llm)]

\* The candidates handed over in the opposite order.
ExtractedJsonsSwapped(e1, e2) == e2 \o e1

\* The list [extraction1, extraction2] handed to _refine_extraction.
ExtractedJsons(e1, e2) == e1 \o e2

\* A control flow that refines as soon as the first extraction has returned.
RefineAfterFirstExtraction(step, outcome) ==
    IF outcome.kind = "raise" THEN "except"
    ELSE CASE step = "extract1" -> "refine"
           [] step = "extract2" -> "refine"
           [] step = "refine" -> "attach"

\* A control flow that repeats a sub-call that raised.
RetryOnError(step, outcome) ==
    IF outcome.kind = "raise" THEN step
    ELSE CASE step = "extract1" -> "extract2"
           [] step = "extract2" -> "refine"
           [] step = "refine" -> "attach"

\* Control flow of get_structured_data after the sub-call at `step`: an
\* exception leaves the function (and reaches the handler's except clause), a
\* returned value leads to the next statement.
NextPc(step, outcome) ==
    IF outcome.kind = "raise" THEN "except"
    ELSE CASE step = "extract1" -> "extract2"
           [] step = "extract2" -> "refine"
           [] step = "refine" -> "attach"

----------------------------------------------------------------------------
\* The /process handler (main.py) and the files it touches.

\* Uploads of one request: the file names, in order.
FileLists == {<<"a.pdf">>, <<"a.pdf", "b.pdf">>}

\* extract_text_from_document(file_path), when it succeeds
DocumentText(name) == IF name = "a.pdf" THEN "SOF of MV A" ELSE "SOF of MV B"

NoResponse == [status |-> 0, body |-> None, detail |-> None]

\* raise HTTPException(status_code=500, detail=...)
ErrorResponse(name, e) ==
    [status |-> 500, body |-> None, detail |-> Some([fileName |-> name, exc |-> e])]

\* The answer to a request whose handler an exception left: the framework's
\* plain 500.
ServerError == [status |-> 500, body |-> None, detail |-> None]

\* return all_detailed_data
OkResponse(data) == [status |-> 200, body |-> Some(data), detail |-> None]

\* detailed_ai_data['fileName'] = file.filename, on a dict
WithFileName(d, name) ==
    JObj([k \in DOMAIN d.o \cup {"fileName"} |->
            IF k = "fileName" THEN JStr(name) ELSE d.o[k]])

\* os.remove(file_path) when the path exists
RemoveUpload(dir, name) == dir \ {name}

\* File contents are sequences of tokens.  "[", "]" and "\n" are one byte
\* each; ",\n" separates two items; an object, with its indentation, is a
\* head and a tail, so that a write can end inside it, and is told from the
\* other objects by the fileName member of the record it spells; NUL fills a
\* hole.
Token(t, v) == [t |-> t, v |-> v]

\* The text "[]"
EmptyArray == <<Token("[", None), Token("]", None)>>

\* The items of json.dump(data, f, indent=2), from the i-th on.
RECURSIVE Items(_, _)
Items(data, i) ==
    IF i > Len(data) THEN <<>>
    ELSE <<Token(IF i = 1 THEN "\n" ELSE ",\n", None),
           Token("object head", Some(data[i].o.fileName.s)),
           Token("object tail", Some(data[i].o.fileName.s))>> \o Items(data, i + 1)

\* json.dump(all_detailed_data, f, indent=2, ensure_ascii=False)
json_dump(data) ==
    IF data = <<>> THEN EmptyArray
    ELSE <<Token("[", None)>> \o Items(data, 1) \o <<Token("\n", None), Token("]", None)>>

\* A write of `data` at position `at` of a file holding `old`: a hole before
\* `at` reads as NULs, the tokens under the write are replaced, those beyond
\* it stay.  A write of nothing changes nothing.
WriteAt(at, data, old) ==
    LET padded == old \o [i \in 1..(at - Len(old)) |-> Token("NUL", None)]
    IN  IF data = <<>> THEN old
        ELSE SubSeq(padded, 1, at) \o data
             \o SubSeq(padded, at + Len(data) + 1, Len(padded))

Init ==
    /\ env \in ApiKeys
    /\ pc = "idle"
    /\ requests = 0
    /\ files = <<>>
    /\ idx = 0
    /\ uploads = {}
    /\ raw_text = None
    /\ all_detailed_data = <<>>
    /\ extraction1 = None
    /\ extraction2 = None
    /\ trace = <<>>
    /\ result = Pending
    /\ caught = None
    /\ response = NoResponse
    /\ output_json = [exists |-> FALSE, data |-> <<>>]
    /\ offset = 0
    /\ flushes = 0
    /\ tasks = 0
    /\ clearing = 0

\* The credential is process-wide configuration: it can be set, emptied or
\* removed at any moment.
SetEnv ==
    /\ \E v \in ApiKeys \ {env} : env' = v
    /\ UNCHANGED <<offset, flushes, caught, pc, requests, files, idx, uploads,
                   raw_text, all_detailed_data, extraction1, extraction2, trace,
                   result, response, output_json, tasks, clearing>>

\* Lines 85-87: a request arrives; uploads/ is made sure of and the handler
\* starts its loop.  When os.makedirs fails the OSError leaves the handler,
\* which never had a result list or a loop index.
ReceiveRequest ==
    /\ pc = "idle"
    /\ requests < MaxRequests
    /\ \E fs \in FileLists : files' = fs
    /\ requests' = requests + 1
    /\ all_detailed_data' = <<>>
    /\ \E ok \in BOOLEAN :
        IF ok
        THEN /\ idx' = 1
             /\ response' = NoResponse
             /\ pc' = "save"
        ELSE /\ idx' = 0
             /\ response' = ServerError
             /\ pc' = "idle"
    /\ UNCHANGED <<offset, flushes, caught, env, uploads, raw_text, extraction1,
                   extraction2, trace, result, output_json, tasks, clearing>>

\* Lines 90-93: the upload is copied to uploads/<filename>; open() may fail,
\* and so may the copy into the file it created.
SaveUpload ==
    /\ pc = "save"
    /\ \E how \in {"saved", "open fails", "copy fails"} :
        /\ uploads' = IF how = "open fails" THEN uploads ELSE uploads \cup {files[idx]}
        /\ pc' = IF how = "saved" THEN "parse" ELSE "except"
        /\ caught' = IF how = "saved" THEN caught ELSE Some("OSError")
    /\ UNCHANGED <<offset, flushes, result, env, requests, files, idx, raw_text,
                   all_detailed_data, extraction1, extraction2, trace, response,
                   output_json, tasks, clearing>>

\* Line 95: extract_text_from_document returns the text or raises.
ExtractText ==
    /\ pc = "parse"
    /\ \E ok \in BOOLEAN :
        IF ok
        THEN /\ raw_text' = Some(DocumentText(files[idx]))
             /\ pc' = "extract1"
             /\ caught' = caught
        ELSE /\ raw_text' = raw_text
             /\ pc' = "except"
             /\ caught' = Some("Exception")
    /\ UNCHANGED <<offset, flushes, result, env, requests, files, idx, uploads,
                   all_detailed_data, extraction1, extraction2, trace, response,
                   output_json, tasks, clearing>>

\* One sub-call of get_structured_data, made at `step`, that ended as `call`.
SubCall(step, call) ==
    /\ trace' = Append(trace, call)
    /\ pc' = NextPc(step, call.outcome)
    /\ extraction1' = IF step = "extract1" /\ call.outcome.kind = "return"
                      THEN call.outcome.value ELSE extraction1
    /\ extraction2' = IF step = "extract2" /\ call.outcome.kind = "return"
                      THEN call.outcome.value ELSE extraction2
    /\ result' = IF step = "refine" \/ call.outcome.kind = "raise"
                 THEN call.outcome ELSE result
    /\ caught' = IF call.outcome.kind = "raise" THEN Some(call.outcome.exc) ELSE caught
    /\ UNCHANGED <<offset, flushes, env, requests, files, idx, uploads, raw_text,
                   all_detailed_data, response, output_json, tasks, clearing>>

\* Line 193: extraction1 = _run_extraction(sof_text, 0.0)
RunExtraction1 ==
    /\ pc = "extract1"
    /\ \E llm \in Responses :
        SubCall("extract1", _run_extraction(raw_text[1], FirstTemperature, env, llm))

\* Line 194: extraction2 = _run_extraction(sof_text, 0.3)
RunExtraction2 ==
    /\ pc = "extract2"
    /\ \E llm \in Responses :
        SubCall("extract2", _run_extraction(raw_text[1], SecondTemperature, env, llm))

\* Lines 197-198: final = _refine_extraction(sof_text, [extraction1, extraction2])
RefineExtraction ==
    /\ pc = "refine"
    /\ \E llm \in Responses :
        SubCall("refine",
                _refine_extraction(raw_text[1], ExtractedJsons(extraction1, extraction2),
                                   env, llm))

\* Lines 98-99: the file name is attached and the record appended; a result
\* that is no dict makes the item assignment raise TypeError.  The locals of
\* get_structured_data are dead from here on and are reset.
AttachFileName ==
    /\ pc = "attach"
    /\ IF result.value[1].t = "object"
       THEN /\ all_detailed_data' =
                  Append(all_detailed_data, WithFileName(result.value[1], files[idx]))
            /\ caught' = caught
            /\ pc' = "finally"
       ELSE /\ all_detailed_data' = all_detailed_data
            /\ caught' = Some("TypeError")
            /\ pc' = "except"
    /\ raw_text' = None
    /\ extraction1' = None
    /\ extraction2' = None
    /\ trace' = <<>>
    /\ result' = Pending
    /\ UNCHANGED <<offset, flushes, env, requests, files, idx, uploads, response,
                   output_json, tasks, clearing>>

\* Lines 101-107: any exception becomes an HTTP 500.  The locals of the
\* iteration are dead from here on and are reset.
HandleException ==
    /\ pc = "except"
    /\ response' = ErrorResponse(files[idx], caught[1])
    /\ pc' = "finally"
    /\ raw_text' = None
    /\ extraction1' = None
    /\ extraction2' = None
    /\ trace' = <<>>
    /\ result' = Pending
    /\ caught' = None
    /\ UNCHANGED <<offset, flushes, env, requests, files, idx, uploads,
                   all_detailed_data, output_json, tasks, clearing>>

\* Lines 108-112: the temporary file, if it exists, is removed; then the
\* HTTPException leaves the handler, or the loop goes on, or the loop is over.
\* When os.remove fails the OSError leaves the handler, in the place of the
\* HTTPException if there is one, and the file stays.
Finally ==
    /\ pc = "finally"
    /\ \E ok \in {TRUE} \cup {FALSE : x \in {files[idx]} \cap uploads} :
        IF ok
        THEN /\ uploads' = RemoveUpload(uploads, files[idx])
             /\ response' = response
             /\ IF response.status = 500
                THEN pc' = "idle" /\ idx' = idx
                ELSE IF idx < Len(files)
                THEN pc' = "save" /\ idx' = idx + 1
                ELSE pc' = "write" /\ idx' = idx
        ELSE /\ uploads' = uploads
             /\ response' = ServerError
             /\ pc' = "idle"
             /\ idx' = idx
    /\ UNCHANGED <<offset, flushes, env, requests, files, all_detailed_data,
                   output_json, tasks, clearing, raw_text, extraction1, extraction2,
                   trace, result, caught>>

\* Line 114: open("output.json", "w") creates or truncates the file; when it
\* fails the OSError leaves the handler.
OpenOutput ==
    /\ pc = "write"
    /\ \E ok \in BOOLEAN :
        IF ok
        THEN /\ output_json' = [exists |-> TRUE, data |-> <<>>]
             /\ pc' = "dump"
             /\ response' = response
        ELSE /\ output_json' = output_json
             /\ pc' = "idle"
             /\ response' = ServerError
    /\ offset' = 0
    /\ flushes' = 0
    /\ UNCHANGED <<caught, env, requests, files, idx, uploads, raw_text,
                   all_detailed_data, extraction1, extraction2, trace, result, tasks,
                   clearing>>

\* Line 115, json.dump under way: the buffer has filled (8192 bytes, so its
\* end lies within an object) and is written at the descriptor's position.
FlushOutput ==
    /\ pc = "dump"
    /\ flushes < MaxFlushes
    /\ \E k \in (offset + 1)..(Len(json_dump(all_detailed_data)) - 1) :
        /\ json_dump(all_detailed_data)[k].t = "object head"
        /\ output_json' =
              [exists |-> TRUE,
               data |-> WriteAt(offset, SubSeq(json_dump(all_detailed_data), offset + 1, k),
                                output_json.data)]
        /\ offset' = k
    /\ flushes' = flushes + 1
    /\ UNCHANGED <<caught, env, pc, requests, files, idx, uploads, raw_text,
                   all_detailed_data, extraction1, extraction2, trace, result, response,
                   tasks, clearing>>

\* Line 115: the rest is written as the file is closed; when a write fails the
\* OSError leaves the handler and the file keeps what had reached it, the
\* part of the rest written before the failure included.
DumpOutput ==
    /\ pc = "dump"
    /\ \E k \in offset..Len(json_dump(all_detailed_data)) :
        /\ output_json' =
              [exists |-> TRUE,
               data |-> WriteAt(offset, SubSeq(json_dump(all_detailed_data), offset + 1, k),
                                output_json.data)]
        /\ IF k = Len(json_dump(all_detailed_data))
           THEN /\ pc' = "schedule"
                /\ response' = response
           ELSE /\ pc' = "idle"
                /\ response' = ServerError
    /\ offset' = 0
    /\ flushes' = 0
    /\ UNCHANGED <<caught, env, requests, files, idx, uploads, raw_text,
                   all_detailed_data, extraction1, extraction2, trace, result, tasks,
                   clearing>>

\* background_tasks.add_task(clear_output_file)
AddTask(n) == n + 1

\* Lines 117-119: the clear task is scheduled and the list returned.
ScheduleAndReturn ==
    /\ pc = "schedule"
    /\ tasks' = AddTask(tasks)
    /\ response' = OkResponse(all_detailed_data)
    /\ pc' = "idle"
    /\ UNCHANGED <<offset, flushes, caught, env, requests, files, idx, uploads,
                   raw_text, all_detailed_data, extraction1, extraction2, trace,
                   result, output_json, clearing>>

\* clear_output_file, lines 64-65 and 68-69: a scheduled task starts, on a
\* worker thread, and opens output.json for writing, which truncates it; when
\* the open fails the except clause prints the reason and the task is over.
ClearOpen ==
    /\ tasks > 0
    /\ tasks' = tasks - 1
    /\ \E ok \in BOOLEAN :
        IF ok
        THEN /\ clearing' = clearing + 1
             /\ output_json' = [exists |-> TRUE, data |-> <<>>]
        ELSE /\ clearing' = clearing
             /\ output_json' = output_json
    /\ UNCHANGED <<caught, env, pc, requests, files, idx, uploads, raw_text,
                   all_detailed_data, extraction1, extraction2, trace, result, response,
                   offset, flushes>>

\* clear_output_file, lines 66-69: "[]" is written at the start of the file
\* and the file closed; when the write fails the except clause prints the
\* reason and the file keeps what it held, with the part of "[]" written
\* before the failure.
ClearWrite ==
    /\ clearing > 0
    /\ clearing' = clearing - 1
    /\ \E k \in 0..Len(EmptyArray) :
        output_json' = [exists |-> TRUE,
                        data |-> WriteAt(0, SubSeq(EmptyArray, 1, k), output_json.data)]
    /\ UNCHANGED <<caught, env, pc, requests, files, idx, uploads, raw_text,
                   all_detailed_data, extraction1, extraction2, trace, result, response,
                   offset, flushes, tasks>>

Next ==
    \/ SetEnv
    \/ ReceiveRequest
    \/ SaveUpload
    \/ ExtractText
    \/ RunExtraction1
    \/ RunExtraction2
    \/ RefineExtraction
    \/ AttachFileName
    \/ HandleException
    \/ Finally
    \/ OpenOutput
    \/ FlushOutput
    \/ DumpOutput
    \/ ScheduleAndReturn
    \/ ClearOpen
    \/ ClearWrite

Spec == Init /\ [][Next]_vars

----------------------------------------------------------------------------
\* Properties.

Returned(call) == call.outcome.kind = "return"
Networked(call) == call.request # None
MissingCredential(call) == call.api_key \in {None, Some("")}
LastCall == trace[Len(trace)]

\* The error kinds of the specification, by the exception the code raises:
\* the missing-credential ValueError, a failure of the service call or of the
\* JSON parsing of its text, a schema validation failure.
ErrorKind(e) ==
    CASE e = "ValueError" -> "MissingCredentialError"
      [] e \in {"APIError", "JSONDecodeError"} -> "ExtractionServiceError"
      [] e = "ValidationError" -> "SchemaValidationError"
      [] OTHER -> "other"

\* The member k of v when v is an object that has one, null otherwise.
Member(v, k) == IF v.t = "object" /\ k \in DOMAIN v.o THEN v.o[k] ELSE JNull

ConfidenceInBounds(c) == c.t = "null" \/ (c.t = "number" /\ c.n >= 0 /\ c.n <= 10)

\* The confidence of v, if v has one, is null or within [0.0, 1.0].
ConfidenceOk(v) ==
    (v.t = "object" /\ "confidence" \in DOMAIN v.o) => ConfidenceInBounds(v.o.confidence)

ConfidencesOk(l) == l.t = "array" => \A i \in DOMAIN l.a : ConfidenceOk(l.a[i])

\* Every confidence field found in a JSON value is null or within bounds.
AllConfidencesInBounds(v) ==
    /\ ConfidenceOk(Member(v, "document_details"))
    /\ ConfidenceOk(Member(Member(v, "document_details"), "parties"))
    /\ ConfidenceOk(Member(Member(v, "document_details"), "cargo"))
    /\ ConfidencesOk(Member(v, "events"))
    /\ ConfidenceOk(Member(v, "laytime_notes"))
    /\ ConfidencesOk(Member(v, "approvals"))

\* C1: get_structured_data ends either by returning a record that validates
\* against SoFSchema or by raising one of the three defined error kinds.
C1_ValidRecordOrDefinedError ==
    /\ result.kind = "return" => SoFSchemaValidates(result.value[1])
    /\ result.kind = "raise" => ErrorKind(result.exc) # "other"

ExtractionReturned(call, temperature) ==
    /\ call.fn = "_run_extraction"
    /\ Returned(call)
    /\ Networked(call)
    /\ call.request[1].temperature = temperature
\* C2: a call of _refine_extraction is the third sub-call of its invocation,
\* made after the extraction at temperature 0.0 and the extraction at
\* temperature 0.3 have both returned; the pipeline stands at the refinement
\* only with both candidates in hand.
C2_AdjudicationAfterBothExtractions ==
    /\ \A i \in DOMAIN trace :
          trace[i].fn = "_refine_extraction" =>
              /\ i = 3
              /\ ExtractionReturned(trace[1], FirstTemperature)
              /\ ExtractionReturned(trace[2], SecondTemperature)
    /\ pc = "refine" =>
          /\ Len(trace) = 2
          /\ extraction1 = trace[1].outcome.value /\ extraction1 # None
          /\ extraction2 = trace[2].outcome.value /\ extraction2 # None
C2_Witness ==
    /\ Len(trace) = 3
    /\ trace[3].fn = "_refine_extraction"
    /\ Networked(trace[3])

\* C3: a sub-call that begins while the credential is unset or empty raises the
\* missing-credential ValueError and sends no request, whatever the earlier
\* sub-calls of the invocation found.
C3_MissingCredentialPerCall ==
    \A i \in DOMAIN trace :
        MissingCredential(trace[i]) =>
            /\ ~Networked(trace[i])
            /\ trace[i].outcome = Raise("ValueError")
C3_Witness ==
    /\ Len(trace) = 3
    /\ Returned(trace[1]) /\ Returned(trace[2])
    /\ trace[3].api_key = Some("")
    /\ trace[3].outcome = Raise("ValueError")

Malformed(llm) ==
    /\ ~llm.error
    /\ llm.parsed # "instance"
    /\ llm.text # None
    /\ llm.text[1] \notin JsonTexts
\* C4: a response that is neither schema-conforming nor JSON makes the call
\* raise the schema validation error.
C4_MalformedRaisesSchemaValidationError ==
    \A i \in DOMAIN trace :
        (Networked(trace[i]) /\ Malformed(trace[i].llm[1])) =>
            /\ trace[i].outcome.kind = "raise"
            /\ ErrorKind(trace[i].outcome.exc) = "SchemaValidationError"

FallbackJson(call) ==
    /\ Networked(call)
    /\ ~call.llm[1].error
    /\ call.llm[1].parsed = "ValidationError"
    /\ call.llm[1].text # None
    /\ call.llm[1].text[1] \in JsonTexts
\* C5: on the fallback path the parsed JSON value is validated against the
\* schema: a conforming value is returned, any other is rejected with the
\* schema validation error.
C5_FallbackValueIsValidated ==
    \A i \in DOMAIN trace :
        FallbackJson(trace[i]) =>
            IF SoFSchemaValidates(JsonValue(trace[i].llm[1].text[1]))
            THEN trace[i].outcome = Return(JsonValue(trace[i].llm[1].text[1]))
            ELSE /\ trace[i].outcome.kind = "raise"
                 /\ ErrorKind(trace[i].outcome.exc) = "SchemaValidationError"

\* C6: when get_structured_data returns, it has sent exactly three requests:
\* the document at temperature 0.0, the document at temperature 0.3, then the
\* refinement at temperature 0.0 carrying the document and the two candidates
\* in that order, as returned; and it returns what the refinement returned.
C6_ThreeCallsInOrder ==
    result.kind = "return" =>
        /\ Len(trace) = 3
        /\ \A i \in 1..3 : Networked(trace[i]) /\ Returned(trace[i])
        /\ trace[1].fn = "_run_extraction"
        /\ trace[1].request[1].temperature = 0
        /\ trace[1].request[1].sof_text = raw_text[1]
        /\ trace[2].fn = "_run_extraction"
        /\ trace[2].request[1].temperature = 3
        /\ trace[2].request[1].sof_text = raw_text[1]
        /\ trace[3].fn = "_refine_extraction"
        /\ trace[3].request[1].temperature = 0
        /\ trace[3].request[1].sof_text = raw_text[1]
        /\ trace[3].request[1].extracted_jsons =
              <<trace[1].outcome.value[1], trace[2].outcome.value[1]>>
        /\ raw_text[1] = DocumentText(files[idx])
        /\ result = trace[3].outcome
C6_Witness ==
    /\ result.kind = "return"
    /\ trace[1].outcome.value # trace[2].outcome.value
    /\ result.value # trace[1].outcome.value
    /\ result.value # trace[2].outcome.value

\* C7: an error of a sub-call ends get_structured_data with that same error;
\* no sub-call follows a sub-call that raised, none is repeated, and an
\* invocation makes at most three.
C7_ErrorsPropagateNoRetry ==
    /\ Len(trace) <= 3
    /\ \A i \in DOMAIN trace :
          /\ i < Len(trace) => Returned(trace[i])
          /\ trace[i].fn = (IF i = 3 THEN "_refine_extraction" ELSE "_run_extraction")
    /\ result.kind = "raise" =>
          /\ trace # <<>>
          /\ result = LastCall.outcome
          /\ caught = Some(LastCall.outcome.exc)
          /\ pc \in {"except", "finally"}
    /\ (trace # <<>> /\ ~Returned(LastCall)) => result.kind = "raise"
C7_Witness ==
    /\ result.kind = "raise"
    /\ Len(trace) = 2
    /\ Returned(trace[1])
    /\ trace[2].outcome = Raise("APIError")
    /\ pc = "except"

\* C8: outside the processing of a file nothing is left under uploads/; and a
\* finished request was answered with the full list or with an HTTP 500 that
\* carries no list, the latter whenever a file of it was not processed.
C8_TempFileRemovedAndFailureReported ==
    /\ pc \in {"idle", "save", "write", "dump", "schedule"} => uploads = {}
    /\ (pc = "idle" /\ requests > 0) =>
          /\ \/ /\ response = OkResponse(all_detailed_data)
                /\ Len(all_detailed_data) = Len(files)
             \/ /\ response.status = 500
                /\ response.body = None
          /\ Len(all_detailed_data) < Len(files) => response.status = 500

\* C9: every confidence of a returned record is null or within [0.0, 1.0].
C9_ConfidenceWithinBounds ==
    /\ \A i \in DOMAIN trace :
          Returned(trace[i]) =>
              AllConfidencesInBounds(trace[i].outcome.value[1])
    /\ result.kind = "return" =>
          AllConfidencesInBounds(result.value[1])

\* output.json holds bytes of an extracted record.
HoldsRecords ==
    \E i \in DOMAIN output_json.data :
        output_json.data[i].t \in {"object head", "object tail"}
\* C10: once no clear task is scheduled or running and no handler stands
\* between its write and its scheduling, no extracted record remains in
\* output.json; and only a request all of whose files succeeded writes to it.
C10_OutputSnapshotIsTransient ==
    /\ (tasks = 0 /\ clearing = 0 /\ pc \notin {"dump", "schedule"}) => ~HoldsRecords
    /\ pc \in {"dump", "schedule"} =>
          /\ Len(all_detailed_data) = Len(files)
          /\ response.status # 500

====
